---- MODULE Spec2Model ----
(***************************************************************************)
(* HumanKlu artifact pipeline (humanklu/scripts/pipeline.py) and its batch *)
(* runner (humanklu/scripts/batch_run.py).                                 *)
(*                                                                         *)
(* Numbers are fixed point: a score s is held as 100*s (7.2 is 720), an    *)
(* inferred ratio q as 10000*q (0.75 is 7500).  Python's None is the empty *)
(* tuple <<>>, a missing dict key is the string "<absent>", a JSON null    *)
(* value of a string field is "<null>".  A dict whose values are all       *)
(* booleans is the set of its <<key, value>> pairs.  A text is the tuple   *)
(* of its characters.                                                      *)
(***************************************************************************)
EXTENDS Integers, Sequences, FiniteSets, TLC

VARIABLES
    call,      \* unit harness: the last call of a pure function, with its result
    prev,      \* unit harness: the call before it, when a function is called again
    pc,        \* per runner: position inside run_pipeline
    inp,       \* per runner: the input record being processed
    loc,       \* per runner: the local variables of run_pipeline
    ledger,    \* the shared ledger.jsonl file
    runs,      \* number of runs started so far
    batch      \* the local variables of run_batch

vars == <<call, prev, pc, inp, loc, ledger, runs, batch>>

unitVars == <<call, prev>>
runVars  == <<pc, inp, loc, ledger, runs, batch>>

-----------------------------------------------------------------------------
(* Bounds of the model *)

\* longest claim list handed to compute_inferred_ratio
MaxClaims == 3
\* longest claim list handed to detect_absence_assertions
MaxDetectClaims == 2
\* longest claim list of an input record of run_pipeline
MaxRunClaims == 3
\* number of distinct values make_ledger_id can return
MaxIds == 2
\* number of runs of run_pipeline against one ledger
MaxRuns == 3
\* number of runs of run_pipeline that may overlap on one ledger
MaxRaceRuns == 2
\* longest claim list handed to the claim_id normaliser on its own
MaxIdClaims == 3
\* number of *.json file names an input directory of run_batch can hold
MaxBatchFiles == 3

-----------------------------------------------------------------------------
(* Python values *)

None   == <<>>
Absent == "<absent>"
Null   == "<null>"

\* Python truthiness of a string-or-None value read with dict.get
Falsy(v) == v \in {Absent, Null, ""}

Min2(a, b) == IF a <= b THEN a ELSE b

\* round(n / d) for n >= 0, d > 0, to the nearest integer, ties to even
RoundDiv(n, d) ==
    LET q == n \div d
        r == n % d
    IN  IF 2 * r < d THEN q
        ELSE IF 2 * r > d THEN q + 1
        ELSE IF q % 2 = 0 THEN q ELSE q + 1

SeqsUpTo(S, n) == UNION {[1..k -> S] : k \in 0..n}

UpperChars == <<"A","B","C","D","E","F","G","H","I","J","K","L","M",
                "N","O","P","Q","R","S","T","U","V","W","X","Y","Z">>
LowerChars == <<"a","b","c","d","e","f","g","h","i","j","k","l","m",
                "n","o","p","q","r","s","t","u","v","w","x","y","z">>

\* str.lower(), character by character
LowerChar(c) ==
    IF \E i \in 1..Len(UpperChars) : UpperChars[i] = c
    THEN LowerChars[CHOOSE i \in 1..Len(UpperChars) : UpperChars[i] = c]
    ELSE c

Lower(text) == [i \in 1..Len(text) |-> LowerChar(text[i])]

\* the Python test  phrase in text  (substring containment)
Contains(text, phrase) ==
    \E i \in 1..(Len(text) - Len(phrase) + 1) :
        \A j \in 1..Len(phrase) : text[i + j - 1] = phrase[j]

-----------------------------------------------------------------------------
(* ABSENCE_PHRASES *)

PhraseThirdParty == <<"n","o"," ","t","h","i","r","d","-","p","a","r","t","y"," ","a","u","d","i","t">>
PhraseNoAudit    == <<"n","o"," ","a","u","d","i","t">>
PhraseNoEvidence == <<"n","o"," ","e","v","i","d","e","n","c","e"," ","f","o","u","n","d">>
PhrasePublic     == <<"n","o"," ","p","u","b","l","i","c"," ","a","u","d","i","t">>

ABSENCE_PHRASES == <<PhraseThirdParty, PhraseNoAudit, PhraseNoEvidence, PhrasePublic>>

-----------------------------------------------------------------------------
(* compute_inferred_ratio *)

\* mutant: the default of the lookup is left out
CountsAsInferredNoDefault(c) == c.evidence_type = "INFERRED"

\* c.get("evidence_type", "INFERRED") == "INFERRED"
CountsAsInferred(c) ==
    (IF c.evidence_type = Absent THEN "INFERRED" ELSE c.evidence_type) = "INFERRED"

compute_inferred_ratio(claims) ==
    IF Len(claims) = 0
    THEN 10000
    ELSE LET inferred == Cardinality({i \in 1..Len(claims) : CountsAsInferred(claims[i])})
         IN  RoundDiv(inferred * 10000, Len(claims))

-----------------------------------------------------------------------------
(* apply_evid_ceiling: returns <<evid_effective, ceiling_note>>; the note is *)
(* <<cap, inferred_ratio, threshold>>, the three values its text is built of *)

\* mutant: the cap overrides the score instead of bounding it
apply_evid_ceiling_override(evid_raw, inferred_ratio) ==
    IF inferred_ratio > 7500
    THEN <<650, <<650, inferred_ratio, 7500>> >>
    ELSE IF inferred_ratio > 6000
    THEN <<720, <<720, inferred_ratio, 6000>> >>
    ELSE <<evid_raw, None>>

apply_evid_ceiling(evid_raw, inferred_ratio) ==
    IF inferred_ratio > 7500
    THEN <<Min2(evid_raw, 650), <<650, inferred_ratio, 7500>> >>
    ELSE IF inferred_ratio > 6000
    THEN <<Min2(evid_raw, 720), <<720, inferred_ratio, 6000>> >>
    ELSE <<evid_raw, None>>

-----------------------------------------------------------------------------
(* detect_absence_assertions *)

\* next((p for p in ABSENCE_PHRASES if p in text_lower), None)
FirstMatch(text_lower) ==
    LET hits == {k \in 1..Len(ABSENCE_PHRASES) : Contains(text_lower, ABSENCE_PHRASES[k])}
    IN  IF hits = {} THEN None
        ELSE ABSENCE_PHRASES[CHOOSE k \in hits : \A m \in hits : k <= m]

\* mutant: the top-level source_url is not consulted
ClaimUriNestedOnly(c) == IF c.source.kind = "dict" THEN c.source.uri ELSE Absent

\* source = c.get("source") or {};  uri = source.get("uri") or c.get("source_url")
ClaimUri(c) ==
    LET source_uri == IF c.source.kind = "dict" THEN c.source.uri ELSE Absent
    IN  IF ~Falsy(source_uri) THEN source_uri ELSE c.source_url

\* c.get("claim_id", "?")
FlagClaimId(c) == IF c.claim_id = None THEN <<"?">> ELSE c.claim_id

AbsenceFlag(c, matched) ==
    [claim_id       |-> FlagClaimId(c),
     flag_type      |-> "ABSENCE_ASSERTION",
     matched_phrase |-> matched,
     detail         |-> "Claim asserts absence of evidence but provides no source URI."]

RECURSIVE DetectFrom(_, _)
DetectFrom(claims, i) ==
    IF i > Len(claims) THEN <<>>
    ELSE LET c       == claims[i]
             matched == FirstMatch(Lower(c.text))
         IN  IF matched = None THEN DetectFrom(claims, i + 1)
             ELSE IF Falsy(ClaimUri(c))
                  THEN <<AbsenceFlag(c, matched)>> \o DetectFrom(claims, i + 1)
                  ELSE DetectFrom(claims, i + 1)

detect_absence_assertions(claims) == DetectFrom(claims, 1)

-----------------------------------------------------------------------------
(* compute_hci *)

\* mutant: the raw EVID score of the dimensions is averaged
compute_hci_raw(dims, evid_effective) ==
    RoundDiv(dims.EVID.score + dims.MECH.score + dims.INC.score
                 + dims.RISK.score + dims.SPEC.score, 5)

compute_hci(dims, evid_effective) ==
    RoundDiv(evid_effective + dims.MECH.score + dims.INC.score
                 + dims.RISK.score + dims.SPEC.score, 5)

-----------------------------------------------------------------------------
(* determine_certification_level: returns <<certification_level, extra_fields>>; *)
(* each gate is one condition of the cascade                                      *)

\* mutant: the hallucination flags are not looked at
RejectedGateScoresOnly(evid_effective, hci, hallucination_flags) ==
    evid_effective < 600 \/ hci < 550

RejectedGate(evid_effective, hci, hallucination_flags) ==
    hallucination_flags # <<>> \/ evid_effective < 600 \/ hci < 550

\* mutant: the EVID comparison points the wrong way
InstitutionalGateEvidFlipped(spec, evid_effective, hci, inferred_ratio, hallucination_flags, has_absence_assertions) ==
    /\ hci >= 850
    /\ evid_effective <= 820
    /\ inferred_ratio <= 4000
    /\ spec >= 750
    /\ ~has_absence_assertions
    /\ hallucination_flags = <<>>

InstitutionalGate(spec, evid_effective, hci, inferred_ratio, hallucination_flags, has_absence_assertions) ==
    /\ hci >= 850
    /\ evid_effective >= 820
    /\ inferred_ratio <= 4000
    /\ spec >= 750
    /\ ~has_absence_assertions
    /\ hallucination_flags = <<>>

ProGate(spec, evid_effective, hci, inferred_ratio, has_absence_assertions) ==
    /\ hci >= 780
    /\ evid_effective >= 760
    /\ inferred_ratio <= 5000
    /\ spec >= 700
    /\ ~has_absence_assertions

\* mutant: the gate does not ask for the absence of absence assertions
VerifiedGateNoAbsenceCheck(spec, evid_effective, hci, inferred_ratio, has_absence_assertions) ==
    /\ hci >= 730
    /\ evid_effective >= 720
    /\ inferred_ratio <= 6000
    /\ spec >= 650

\* mutant: the HK-VERIFIED gate without its test of the inferred ratio
VerifiedGateNoRatioCheck(spec, evid_effective, hci, inferred_ratio, has_absence_assertions) ==
    /\ hci >= 730
    /\ evid_effective >= 720
    /\ spec >= 650
    /\ ~has_absence_assertions

VerifiedGate(spec, evid_effective, hci, inferred_ratio, has_absence_assertions) ==
    /\ hci >= 730
    /\ evid_effective >= 720
    /\ inferred_ratio <= 6000
    /\ spec >= 650
    /\ ~has_absence_assertions

\* mutant: the HK-REVIEWED gate takes the hci threshold of the HK-REJECTED gate
ReviewedGateFromFiveFive(evid_effective, hci) ==
    hci >= 550 /\ evid_effective >= 600

ReviewedGate(evid_effective, hci) ==
    hci >= 600 /\ evid_effective >= 600

determine_certification_level(dims, evid_effective, hci, inferred_ratio, hallucination_flags, has_absence_assertions) ==
    LET spec == dims.SPEC.score
    IN  IF RejectedGate(evid_effective, hci, hallucination_flags)
        THEN <<"HK-REJECTED", {}>>
        ELSE IF InstitutionalGate(spec, evid_effective, hci, inferred_ratio,
                                  hallucination_flags, has_absence_assertions)
        THEN <<"HK-INSTITUTIONAL", {<<"institutional_requires_two_reviews", TRUE>>}>>
        ELSE IF ProGate(spec, evid_effective, hci, inferred_ratio, has_absence_assertions)
        THEN <<"HK-PRO", {<<"pro_requires_second_review", TRUE>>}>>
        ELSE IF VerifiedGate(spec, evid_effective, hci, inferred_ratio, has_absence_assertions)
        THEN <<"HK-VERIFIED", {}>>
        ELSE IF ReviewedGate(evid_effective, hci)
        THEN <<"HK-REVIEWED", {}>>
        ELSE <<"HK-REJECTED", {}>>

-----------------------------------------------------------------------------
(* run_pipeline, lines 612-615: claims without a claim_id get CLM-<position> *)

ClmId(i) == <<"CLM", i>>

AssignClaimIds(claims) ==
    [i \in 1..Len(claims) |->
        IF claims[i].claim_id = None
        THEN [claims[i] EXCEPT !.claim_id = ClmId(i)]
        ELSE claims[i]]

-----------------------------------------------------------------------------
(* Inputs of the pure functions *)

TextPlain    == <<"R","e","v","e","n","u","e"," ","g","r","e","w">>
TextUpper    == <<"N","o"," ","A","u","d","i","t"," ","w","a","s"," ","d","o","n","e">>
TextMulti    == <<"N","o"," ","e","v","i","d","e","n","c","e"," ","f","o","u","n","d",","," ","n","o"," ","t","h","i","r","d","-","p","a","r","t","y"," ","a","u","d","i","t">>
TextEmbedded == <<"p","i","a","n","o"," ","a","u","d","i","t","o","r","s">>
TextPublicThenAudit == <<"n","o"," ","p","u","b","l","i","c"," ","a","u","d","i","t",";"," ","n","o"," ","a","u","d","i","t">>

Texts == {TextPlain, TextUpper, TextMulti, TextEmbedded, TextPublicThenAudit}

NoSource      == [kind |-> "absent", uri |-> Absent]
NullSource    == [kind |-> "null", uri |-> Absent]
SourceWith(u) == [kind |-> "dict", uri |-> u]

\* the two places a source URI can be given, as <<source, source_url>>
UriConfigs ==
    { <<NoSource, Absent>>,
      <<SourceWith("https://a.example"), Absent>>,
      <<NullSource, "https://b.example">>,
      <<SourceWith(""), Null>> }

Claim(id, et, txt, src, url) ==
    [claim_id |-> id, evidence_type |-> et, text |-> txt, source |-> src, source_url |-> url]

\* claims that differ in their evidence_type field
RatioPool == { Claim(None, et, TextPlain, NoSource, Absent) :
                  et \in {Absent, Null, "INFERRED", "VERIFIED"} }

\* claims that differ in their text and in where a source URI is given
DetectPool == { Claim(None, "VERIFIED", txt, u[1], u[2]) : txt \in Texts, u \in UriConfigs }

CeilingScores == {0, 500, 640, 650, 660, 710, 720, 730, 900, 1000}
CeilingRatios == {0, 3333, 5999, 6000, 6001, 6667, 7500, 7501, 8000, 10000}

GateEvid   == {590, 600, 720, 760, 820, 900}
GateHci    == {540, 550, 600, 730, 780, 850}
GateSpec   == {640, 650, 700, 750}
GateRatios == {3333, 4000, 5000, 6000, 10000}
FlagLists  == {<<>>, <<"HF-1">>}

\* claims that differ in the claim_id the caller supplied, None for no claim_id key
SuppliedIds == {None, ClmId(1), ClmId(2), <<"USR", 1>>}
IdPool == { Claim(id, "VERIFIED", TextPlain, NoSource, Absent) : id \in SuppliedIds }

Score(s) == [score |-> s]

\* a dimensions object whose SPEC score is s
DimsWithSpec(s) ==
    [EVID |-> Score(500), MECH |-> Score(500), INC |-> Score(500),
     RISK |-> Score(500), SPEC |-> Score(s)]

-----------------------------------------------------------------------------
(* The unit harness: one call of a pure function per behaviour, and for the *)
(* classifier a second call with other evid_effective and hci               *)

NoCall == [fn |-> "none"]

CallComputeInferredRatio ==
    /\ call = NoCall
    /\ \E claims \in SeqsUpTo(RatioPool, MaxClaims) :
          call' = [fn   |-> "compute_inferred_ratio",
                   args |-> [claims |-> claims],
                   ret  |-> compute_inferred_ratio(claims)]
    /\ UNCHANGED <<prev, runVars>>

CallApplyEvidCeiling ==
    /\ call = NoCall
    /\ \E evid_raw \in CeilingScores, inferred_ratio \in CeilingRatios :
          call' = [fn   |-> "apply_evid_ceiling",
                   args |-> [evid_raw |-> evid_raw, inferred_ratio |-> inferred_ratio],
                   ret  |-> apply_evid_ceiling(evid_raw, inferred_ratio)]
    /\ UNCHANGED <<prev, runVars>>

CallDetectAbsenceAssertions ==
    /\ call = NoCall
    /\ \E raw \in SeqsUpTo(DetectPool, MaxDetectClaims) :
          LET claims == AssignClaimIds(raw)
          IN  call' = [fn   |-> "detect_absence_assertions",
                       args |-> [claims |-> claims],
                       ret  |-> detect_absence_assertions(claims)]
    /\ UNCHANGED <<prev, runVars>>

GateCall(spec, evid_effective, hci, inferred_ratio, hallucination_flags, has_absence) ==
    [fn   |-> "determine_certification_level",
     args |-> [spec                   |-> spec,
               evid_effective         |-> evid_effective,
               hci                    |-> hci,
               inferred_ratio         |-> inferred_ratio,
               hallucination_flags    |-> hallucination_flags,
               has_absence_assertions |-> has_absence],
     ret  |-> determine_certification_level(DimsWithSpec(spec), evid_effective, hci,
                  inferred_ratio, hallucination_flags, has_absence)]

CallDetermineCertificationLevel ==
    /\ call = NoCall
    /\ \E spec \in GateSpec, evid_effective \in GateEvid, hci \in GateHci,
          inferred_ratio \in GateRatios, hallucination_flags \in FlagLists,
          has_absence \in BOOLEAN :
          call' = GateCall(spec, evid_effective, hci, inferred_ratio,
                           hallucination_flags, has_absence)
    /\ UNCHANGED <<prev, runVars>>

\* a second call that agrees with the first on everything but evid_effective and hci
CallDetermineAgain ==
    /\ call.fn = "determine_certification_level"
    /\ prev = NoCall
    /\ \E evid_effective \in GateEvid, hci \in GateHci :
          call' = GateCall(call.args.spec, evid_effective, hci, call.args.inferred_ratio,
                           call.args.hallucination_flags, call.args.has_absence_assertions)
    /\ prev' = call
    /\ UNCHANGED runVars

\* lines 612-615 of run_pipeline, taken on their own
CallAssignClaimIds ==
    /\ call = NoCall
    /\ \E claims \in SeqsUpTo(IdPool, MaxIdClaims) :
          call' = [fn   |-> "assign_claim_ids",
                   args |-> [claims |-> claims],
                   ret  |-> AssignClaimIds(claims)]
    /\ UNCHANGED <<prev, runVars>>

NextUnit ==
    \/ CallAssignClaimIds
    \/ CallComputeInferredRatio
    \/ CallApplyEvidCeiling
    \/ CallDetectAbsenceAssertions
    \/ CallDetermineCertificationLevel
    \/ CallDetermineAgain

-----------------------------------------------------------------------------
(* Artifact builders *)

DefaultDims ==
    [EVID |-> Score(500), MECH |-> Score(500), INC |-> Score(500),
     RISK |-> Score(500), SPEC |-> Score(500)]

\* absence_flag_ids = {f["claim_id"] for f in absence_flags}
FlagIds(absence_flags) == {absence_flags[k].claim_id : k \in 1..Len(absence_flags)}

\* has_absence = bool(absence_flags)
HasAbsence(absence_flags) == absence_flags # <<>>

build_evidence_json(report_id, claims, absence_flag_ids, inferred_ratio) ==
    [report_id      |-> report_id,
     inferred_ratio |-> inferred_ratio,
     entries        |-> [i \in 1..Len(claims) |->
         [claim_id      |-> IF claims[i].claim_id = None THEN ClmId(i) ELSE claims[i].claim_id,
          evidence_type |-> IF claims[i].evidence_type = Absent
                            THEN "INFERRED" ELSE claims[i].evidence_type,
          claim_flags   |-> IF claims[i].claim_id \in absence_flag_ids
                            THEN <<"ABSENCE_ASSERTION">> ELSE <<>>]]]

build_sci_score_json(report_id, dims, evid_raw, evid_effective, hci, cert_level, cert_extra, inferred_ratio, ceiling_note, hallucination_flags, absence_flags) ==
    [report_id               |-> report_id,
     dimensions              |-> dims,
     evid_raw                |-> evid_raw,
     evid_effective          |-> evid_effective,
     hci                     |-> hci,
     inferred_ratio          |-> inferred_ratio,
     certification_level     |-> cert_level,
     evid_ceiling_applied    |-> ceiling_note,
     flags                   |-> [k \in 1..Len(absence_flags) |-> absence_flags[k].flag_type]
                                 \o (IF hallucination_flags # <<>>
                                     THEN <<"HALLUCINATION_DETECTED">> ELSE <<>>),
     hallucination_flags     |-> hallucination_flags,
     absence_assertion_flags |-> absence_flags,
     \* obj.update(cert_extra): the obligation keys of the record
     extra                   |-> cert_extra]

\* mutant: only the HK-PRO obligation is carried into the audit record
ObligationKeysProOnly == {"pro_requires_second_review"}

\* line 555: the keys build_audit_json copies from the score record
ObligationKeys == {"pro_requires_second_review", "institutional_requires_two_reviews"}

build_audit_json(report_id, audit_id, sci, evid_raw, evid_effective, inferred_ratio) ==
    [audit_id                |-> audit_id,
     report_id               |-> report_id,
     sci_summary             |-> [EVID |-> sci.dimensions.EVID.score,
                                  MECH |-> sci.dimensions.MECH.score,
                                  INC  |-> sci.dimensions.INC.score,
                                  RISK |-> sci.dimensions.RISK.score,
                                  SPEC |-> sci.dimensions.SPEC.score,
                                  HCI  |-> sci.hci],
     evid_raw                |-> evid_raw,
     evid_effective          |-> evid_effective,
     inferred_ratio          |-> inferred_ratio,
     certification_level     |-> sci.certification_level,
     evid_ceiling_applied    |-> sci.evid_ceiling_applied,
     flags                   |-> sci.flags,
     absence_assertion_flags |-> sci.absence_assertion_flags,
     hallucination_flags     |-> sci.hallucination_flags,
     human_reviewer          |-> None,
     extra                   |-> {kv \in sci.extra : kv[1] \in ObligationKeys}]

\* entry_id stands for the value make_ledger_id() returns
build_ledger_entry(entry_id, report_id, audit_id, cert_level, hci, evid_effective, inferred_ratio, author_model, prev_entry_id) ==
    [kind                |-> "entry",
     entry_id            |-> entry_id,
     report_id           |-> report_id,
     audit_id            |-> audit_id,
     event_type          |-> "CREATED",
     certification_level |-> cert_level,
     hci                 |-> hci,
     evid_effective      |-> evid_effective,
     inferred_ratio      |-> inferred_ratio,
     author_model        |-> author_model,
     human_reviewer      |-> None,
     prev_entry_id       |-> prev_entry_id]

-----------------------------------------------------------------------------
(* The ledger file: whether it exists, and its lines.  A line is an entry   *)
(* written by run_pipeline, text that does not parse to an object with an  *)
(* entry_id, or white space only ("blank").  Text of the first two kinds is *)
(* not JSON ("garbage"), a JSON object without an entry_id key              *)
(* ("no_entry_id"), or a JSON value that is not an object ("scalar")        *)

GarbageLine == [kind |-> "garbage"]
NoIdLine    == [kind |-> "no_entry_id"]
ScalarLine  == [kind |-> "scalar"]
BlankLine   == [kind |-> "blank"]

LedgerIds == {<<"LED", n>> : n \in 1..MaxIds}

RECURSIVE StripLines(_)
\* read_text().strip().splitlines(): white space at either end of the file is dropped
StripLines(lines) ==
    IF lines = <<>> THEN <<>>
    ELSE IF lines[Len(lines)].kind = "blank" THEN StripLines(SubSeq(lines, 1, Len(lines) - 1))
    ELSE IF lines[1].kind = "blank" THEN StripLines(Tail(lines))
    ELSE lines

\* mutant: a line that does not yield an entry_id is passed on as it is
ParseEntryIdUnchecked(line) == IF line.kind = "entry" THEN line.entry_id ELSE line

\* json.loads(line)["entry_id"], None when that raises
ParseEntryId(line) == IF line.kind = "entry" THEN line.entry_id ELSE None

\* mutant: the first line is read instead of the last
LedgerHeadId(file) ==
    IF ~file.exists THEN None
    ELSE LET lines == StripLines(file.lines)
         IN  IF lines = <<>> THEN None ELSE ParseEntryId(lines[1])

\* lines 693-700: the back-reference a run takes from the ledger file
LedgerTailId(file) ==
    IF ~file.exists THEN None
    ELSE LET lines == StripLines(file.lines)
         IN  IF lines = <<>> THEN None ELSE ParseEntryId(lines[Len(lines)])

\* mutant: the file is opened for writing, not for appending
WriteOnlyLine(file, line) == [exists |-> TRUE, lines |-> <<line>>]

\* lines 705-706: open(ledger_path, "a") and write one line with its newline
AppendLine(file, line) == [exists |-> TRUE, lines |-> Append(file.lines, line)]

-----------------------------------------------------------------------------
(* run_pipeline, one action per stretch between its effects on the files *)

Runners == {1, 2}

ArtifactNames == <<"evidence.json", "sci_score.json", "report.html", "humanklu_audit.json">>

NoInput == [title |-> Absent]

NoLoc ==
    [report_id |-> None, claims |-> <<>>, dims |-> DefaultDims, hallucination_flags |-> <<>>,
     author_model |-> "unknown", inferred_ratio |-> 0, evid_raw |-> 0, evid_effective |-> 0,
     ceiling_note |-> None, absence_flags |-> <<>>, has_absence |-> FALSE, hci |-> 0,
     cert_level |-> "", cert_extra |-> {}, evidence |-> None, sci |-> None, audit |-> None,
     files |-> <<>>, prev_id |-> None, entry |-> None, result |-> None]

\* lines 603-651: load the input, normalise it and score it
LoadAndScore(r, Inputs, limit) ==
    /\ pc[r] \in {"idle", "done", "failed"}
    /\ runs < limit
    /\ \E i \in Inputs :
        LET claims         == AssignClaimIds(i.claims)
            dims           == IF i.has_dimensions THEN i.dimensions ELSE DefaultDims
            inferred_ratio == compute_inferred_ratio(claims)
            evid_raw       == dims.EVID.score
            ceiling        == apply_evid_ceiling(evid_raw, inferred_ratio)
            evid_effective == ceiling[1]
            absence_flags  == detect_absence_assertions(claims)
            has_absence    == HasAbsence(absence_flags)
            hci            == compute_hci(dims, evid_effective)
            cert           == determine_certification_level(dims, evid_effective, hci,
                                  inferred_ratio, i.hallucination_flags, has_absence)
        IN  /\ inp' = [inp EXCEPT ![r] = i]
            /\ loc' = [loc EXCEPT ![r] =
                   [NoLoc EXCEPT !.report_id = <<"HK", runs + 1>>,
                                 !.claims = claims,
                                 !.dims = dims,
                                 !.hallucination_flags = i.hallucination_flags,
                                 !.author_model = IF i.model_version = Absent
                                                  THEN "unknown" ELSE i.model_version,
                                 !.inferred_ratio = inferred_ratio,
                                 !.evid_raw = evid_raw,
                                 !.evid_effective = evid_effective,
                                 !.ceiling_note = ceiling[2],
                                 !.absence_flags = absence_flags,
                                 !.has_absence = has_absence,
                                 !.hci = hci,
                                 !.cert_level = cert[1],
                                 !.cert_extra = cert[2]]]
    /\ pc' = [pc EXCEPT ![r] = "artifacts"]
    /\ runs' = runs + 1
    /\ UNCHANGED <<unitVars, batch, ledger>>

\* lines 603-604: the input file cannot be opened or is not JSON
LoadInputFails(r, limit) ==
    /\ pc[r] \in {"idle", "done", "failed"}
    /\ runs < limit
    /\ inp' = [inp EXCEPT ![r] = NoInput]
    /\ loc' = [loc EXCEPT ![r] = NoLoc]
    /\ pc' = [pc EXCEPT ![r] = "failed"]
    /\ runs' = runs + 1
    /\ UNCHANGED <<unitVars, batch, ledger>>

\* lines 653-689: write_text of the artifact after the first n raises OSError
WriteArtifactsFails(r) ==
    /\ pc[r] = "artifacts"
    /\ \E n \in 0..(Len(ArtifactNames) - 1) :
        LET l        == loc[r]
            evidence == build_evidence_json(l.report_id, l.claims, FlagIds(l.absence_flags),
                            l.inferred_ratio)
            sci      == build_sci_score_json(l.report_id, l.dims, l.evid_raw,
                            l.evid_effective, l.hci, l.cert_level, l.cert_extra,
                            l.inferred_ratio, l.ceiling_note, l.hallucination_flags,
                            l.absence_flags)
            audit    == build_audit_json(l.report_id, <<"AUD", runs>>, sci, l.evid_raw,
                            l.evid_effective, l.inferred_ratio)
        IN  /\ inp[r].title = Absent => n <= 1
            /\ loc' = [loc EXCEPT ![r].evidence = evidence,
                                  ![r].sci = IF n >= 1 THEN sci ELSE None,
                                  ![r].audit = IF n >= 3 THEN audit ELSE None,
                                  ![r].files = SubSeq(ArtifactNames, 1, n)]
    /\ pc' = [pc EXCEPT ![r] = "failed"]
    /\ UNCHANGED <<unitVars, batch, inp, ledger, runs>>

\* lines 653-689: build and write the four artifacts; inp["title"] raises
\* KeyError after evidence.json and sci_score.json are on disk
WriteArtifacts(r) ==
    /\ pc[r] = "artifacts"
    /\ LET l        == loc[r]
           evidence == build_evidence_json(l.report_id, l.claims, FlagIds(l.absence_flags),
                           l.inferred_ratio)
           sci      == build_sci_score_json(l.report_id, l.dims, l.evid_raw, l.evid_effective,
                           l.hci, l.cert_level, l.cert_extra, l.inferred_ratio, l.ceiling_note,
                           l.hallucination_flags, l.absence_flags)
           audit    == build_audit_json(l.report_id, <<"AUD", runs>>, sci, l.evid_raw,
                           l.evid_effective, l.inferred_ratio)
       IN  IF inp[r].title = Absent
           THEN /\ loc' = [loc EXCEPT ![r].evidence = evidence, ![r].sci = sci,
                                      ![r].files = SubSeq(ArtifactNames, 1, 2)]
                /\ pc' = [pc EXCEPT ![r] = "failed"]
           ELSE /\ loc' = [loc EXCEPT ![r].evidence = evidence, ![r].sci = sci,
                                      ![r].audit = audit, ![r].files = ArtifactNames]
                /\ pc' = [pc EXCEPT ![r] = "ledger_read"]
    /\ UNCHANGED <<unitVars, batch, inp, ledger, runs>>

\* lines 694-700: read the last line of the ledger
ReadLedgerTail(r) ==
    /\ pc[r] = "ledger_read"
    /\ loc' = [loc EXCEPT ![r].prev_id = LedgerTailId(ledger)]
    /\ pc' = [pc EXCEPT ![r] = "ledger_append"]
    /\ UNCHANGED <<unitVars, batch, inp, ledger, runs>>

\* mutant: the tail is read again under the append, as one atomic step
AppendLedgerEntryAtomic(r) ==
    /\ pc[r] = "ledger_append"
    /\ \E entry_id \in LedgerIds :
        LET l     == loc[r]
            entry == build_ledger_entry(entry_id, l.report_id, l.audit.audit_id, l.cert_level,
                         l.hci, l.evid_effective, l.inferred_ratio, l.author_model,
                         LedgerTailId(ledger))
        IN  /\ ledger' = AppendLine(ledger, entry)
            /\ loc' = [loc EXCEPT ![r].entry = entry,
                                  ![r].result = [report_id           |-> l.report_id,
                                                 certification_level |-> l.cert_level,
                                                 hci                 |-> l.hci,
                                                 evid_raw            |-> l.evid_raw,
                                                 evid_effective      |-> l.evid_effective,
                                                 inferred_ratio      |-> l.inferred_ratio,
                                                 flags               |-> l.sci.flags]]
    /\ pc' = [pc EXCEPT ![r] = "done"]
    /\ UNCHANGED <<unitVars, batch, inp, runs>>

\* lines 701-718: build the entry, append it, return the result
AppendLedgerEntry(r) ==
    /\ pc[r] = "ledger_append"
    /\ \E entry_id \in LedgerIds :
        LET l     == loc[r]
            entry == build_ledger_entry(entry_id, l.report_id, l.audit.audit_id, l.cert_level,
                         l.hci, l.evid_effective, l.inferred_ratio, l.author_model, l.prev_id)
        IN  /\ ledger' = AppendLine(ledger, entry)
            /\ loc' = [loc EXCEPT ![r].entry = entry,
                                  ![r].result = [report_id           |-> l.report_id,
                                                 certification_level |-> l.cert_level,
                                                 hci                 |-> l.hci,
                                                 evid_raw            |-> l.evid_raw,
                                                 evid_effective      |-> l.evid_effective,
                                                 inferred_ratio      |-> l.inferred_ratio,
                                                 flags               |-> l.sci.flags]]
    /\ pc' = [pc EXCEPT ![r] = "done"]
    /\ UNCHANGED <<unitVars, batch, inp, runs>>

-----------------------------------------------------------------------------
(* Inputs of run_pipeline *)

ClaimVerified == Claim(None, "VERIFIED", TextPlain, SourceWith("https://a.example"), Absent)
ClaimInferred == Claim(None, "INFERRED", TextPlain, NoSource, Absent)
ClaimAbsence  == Claim(None, "VERIFIED", TextUpper, NoSource, Absent)

RunClaimPool == {ClaimVerified, ClaimInferred, ClaimAbsence}

RunDims ==
    [EVID : {Score(s) : s \in {550, 640, 700, 730, 800, 900}},
     MECH : {Score(s) : s \in {563, 900}},
     INC  : {Score(900)},
     RISK : {Score(900)},
     SPEC : {Score(s) : s \in {640, 700, 760, 900}}]

Input(title, has_dimensions, dims, claims, flags, model) ==
    [title |-> title, has_dimensions |-> has_dimensions, dimensions |-> dims,
     claims |-> claims, hallucination_flags |-> flags, model_version |-> model]

AllNine == [EVID |-> Score(900), MECH |-> Score(900), INC |-> Score(900),
            RISK |-> Score(900), SPEC |-> Score(900)]

RunInputs ==
    { Input("Report", TRUE, d, c, f, Absent) :
          d \in RunDims, c \in SeqsUpTo(RunClaimPool, MaxRunClaims), f \in FlagLists }
    \cup { Input("Report", FALSE, DefaultDims, c, <<>>, Absent) :
          c \in SeqsUpTo(RunClaimPool, MaxRunClaims) }
    \cup { Input(Absent, TRUE, AllNine, <<ClaimVerified>>, <<>>, Absent) }

\* the few inputs of the runs that share a ledger
LedgerInputs ==
    { Input("Report", TRUE, AllNine, <<ClaimVerified>>, <<>>, "model-1"),
      Input("Report", FALSE, DefaultDims, <<>>, <<>>, Absent),
      Input(Absent, TRUE, AllNine, <<ClaimVerified>>, <<>>, Absent) }

OldEntry ==
    build_ledger_entry(<<"LED", 0>>, <<"HK", 0>>, <<"AUD", 0>>, "HK-REVIEWED", 650, 650, 5000,
                       "unknown", None)

AbsentLedger == [exists |-> FALSE, lines |-> <<>>]
EmptyLedger  == [exists |-> TRUE, lines |-> <<>>]

\* ledger files a run can find
InitialLedgers ==
    { AbsentLedger,
      [exists |-> TRUE, lines |-> <<OldEntry>>],
      [exists |-> TRUE, lines |-> <<OldEntry, GarbageLine>>],
      [exists |-> TRUE, lines |-> <<OldEntry, BlankLine>>] }

-----------------------------------------------------------------------------
(* batch_run.py: run_batch.  A file name is <<"input", n, ".json">>; names    *)
(* compare by n.  The content of a file is an input record of run_pipeline *)
(* or text that is not JSON.                                               *)

FileName(n) == <<"input", n, ".json">>
Stem(name)  == SubSeq(name, 1, 2)

NotJson == [title |-> Absent, json |-> FALSE]

BatchContents == LedgerInputs \cup {NotJson}

IsJson(content) == content # NotJson

\* the directories inputs_path.glob("*.json") can list: a content for each name present
Directories ==
    UNION { [{FileName(n) : n \in N} -> BatchContents] : N \in SUBSET (1..MaxBatchFiles) }

RECURSIVE SortedNames(_)
\* line 29: sorted(...) of the names the glob yields
SortedNames(names) ==
    IF names = {} THEN <<>>
    ELSE LET least == CHOOSE a \in names : \A b \in names : a[2] <= b[2]
         IN  <<least>> \o SortedNames(names \ {least})

NoBatch == [state |-> "none"]

\* None in a field that otherwise holds a score or a ratio; those are never negative
NoneNumber == -1

\* mutant: a failed run is given the lowest tier instead of ERROR
ErrorResultAsRejected(exc) ==
    [report_id |-> "ERROR", certification_level |-> "HK-REJECTED", hci |-> NoneNumber,
     evid_raw |-> NoneNumber, evid_effective |-> NoneNumber, inferred_ratio |-> NoneNumber,
     flags |-> <<exc>>]

\* lines 47-55: the result that stands for a run that raised
ErrorResult(exc) ==
    [report_id |-> "ERROR", certification_level |-> "ERROR", hci |-> NoneNumber,
     evid_raw |-> NoneNumber, evid_effective |-> NoneNumber, inferred_ratio |-> NoneNumber,
     flags |-> <<exc>>]

\* lines 58-61: the title for the summary, read from the input file again
SummaryTitle(name, content) ==
    IF IsJson(content) /\ content.title # Absent THEN content.title ELSE Stem(name)

\* lines 63-73
RunRecord(name, content, result) ==
    [run_id |-> Stem(name), input_file |-> name, title |-> SummaryTitle(name, content),
     report_id |-> result.report_id, certification_level |-> result.certification_level,
     hci |-> result.hci, evid_effective |-> result.evid_effective,
     inferred_ratio |-> result.inferred_ratio, flags |-> result.flags]

\* lines 76-77: level_counts[level] = level_counts.get(level, 0) + 1
CountLevel(level_counts, level) ==
    [l \in (DOMAIN level_counts) \cup {level} |->
        IF l = level
        THEN (IF level \in DOMAIN level_counts THEN level_counts[level] ELSE 0) + 1
        ELSE level_counts[l]]

RECURSIVE SumOf(_, _)
\* sum(r[field] for r in records)
SumOf(records, field) ==
    IF records = <<>> THEN 0 ELSE records[1][field] + SumOf(Tail(records), field)

\* lines 82-96
BuildSummary(run_records, level_counts) ==
    LET valid == SelectSeq(run_records, LAMBDA rec : rec.hci # NoneNumber)
        n     == Len(valid)
    IN  [total_runs         |-> Len(run_records),
         counts_by_level    |-> level_counts,
         avg_hci            |-> IF n = 0 THEN NoneNumber
                                ELSE RoundDiv(10 * SumOf(valid, "hci"), n),
         avg_evid_effective |-> IF n = 0 THEN NoneNumber
                                ELSE RoundDiv(10 * SumOf(valid, "evid_effective"), n),
         avg_inferred_ratio |-> IF n = 0 THEN NoneNumber
                                ELSE RoundDiv(SumOf(valid, "inferred_ratio"), n),
         runs               |-> run_records]

\* lines 24-37: list the directory; sys.exit(1) when it holds no *.json file
BatchStart ==
    /\ batch = NoBatch
    /\ \E dir \in Directories :
          batch' = [state       |-> IF DOMAIN dir = {} THEN "exited" ELSE "loop",
                    dir         |-> dir,
                    input_files |-> SortedNames(DOMAIN dir),
                    run_records |-> <<>>,
                    level_counts |-> [l \in {} |-> 0],
                    summary     |-> None]
    /\ UNCHANGED <<unitVars, pc, inp, loc, ledger, runs>>

\* between two files nothing of run_pipeline is under way
BetweenRuns == batch.state = "loop" /\ Len(batch.run_records) = runs

\* lines 39-44: the next file of the list is handed to run_pipeline
BatchCallRunPipeline ==
    /\ BetweenRuns
    /\ runs < Len(batch.input_files)
    /\ LET content == batch.dir[batch.input_files[runs + 1]]
       IN  IF IsJson(content)
           THEN LoadAndScore(1, {content}, Len(batch.input_files))
           ELSE LoadInputFails(1, Len(batch.input_files))

\* the steps of run_pipeline inside the try of line 43
BatchRunPipelineStep ==
    /\ batch.state = "loop"
    /\ \/ WriteArtifactsFails(1)
       \/ WriteArtifacts(1)
       \/ ReadLedgerTail(1)
       \/ AppendLedgerEntry(1)

\* lines 45-77: the result or the caught exception becomes a run record
BatchRecordRun ==
    /\ batch.state = "loop"
    /\ Len(batch.run_records) < runs
    /\ pc[1] \in {"done", "failed"}
    /\ LET name    == batch.input_files[runs]
           result  == IF pc[1] = "done" THEN loc[1].result ELSE ErrorResult("<exc>")
           rec     == RunRecord(name, batch.dir[name], result)
       IN  batch' = [batch EXCEPT !.run_records = Append(@, rec),
                                  !.level_counts = CountLevel(@, result.certification_level)]
    /\ UNCHANGED <<unitVars, pc, inp, loc, ledger, runs>>

\* lines 82-117: after the last file the summary is built and written
BatchWriteSummary ==
    /\ BetweenRuns
    /\ runs = Len(batch.input_files)
    /\ batch' = [batch EXCEPT !.state = "finished",
                              !.summary = BuildSummary(batch.run_records, batch.level_counts)]
    /\ UNCHANGED <<unitVars, pc, inp, loc, ledger, runs>>

-----------------------------------------------------------------------------
(* Specifications *)

InitRun ==
    /\ pc = [r \in Runners |-> "idle"]
    /\ inp = [r \in Runners |-> NoInput]
    /\ loc = [r \in Runners |-> NoLoc]
    /\ runs = 0
    /\ batch = NoBatch

\* one run of run_pipeline on any input, against any ledger file
Init ==
    /\ call = NoCall
    /\ prev = NoCall
    /\ InitRun
    /\ ledger \in InitialLedgers

Next ==
    \E r \in {1} :
        \/ LoadAndScore(r, RunInputs, 1)
        \/ WriteArtifacts(r)
        \/ ReadLedgerTail(r)
        \/ AppendLedgerEntry(r)

Spec == Init /\ [][Next]_vars

\* the pure functions, each called on its own
InitUnit ==
    /\ call = NoCall
    /\ prev = NoCall
    /\ InitRun
    /\ ledger = AbsentLedger

SpecUnit == InitUnit /\ [][NextUnit]_vars

\* runs one after the other against a ledger that starts absent or empty
InitLedger ==
    /\ call = NoCall
    /\ prev = NoCall
    /\ InitRun
    /\ ledger \in {AbsentLedger, EmptyLedger}

NextLedger ==
    \E r \in {1} :
        \/ LoadInputFails(r, MaxRuns)
        \/ LoadAndScore(r, LedgerInputs, MaxRuns)
        \/ WriteArtifactsFails(r)
        \/ WriteArtifacts(r)
        \/ ReadLedgerTail(r)
        \/ AppendLedgerEntry(r)

SpecLedger == InitLedger /\ [][NextLedger]_vars

\* ledger files whose last line does not give an entry_id
CorruptLedgers ==
    { [exists |-> TRUE, lines |-> <<GarbageLine>>],
      [exists |-> TRUE, lines |-> <<OldEntry, NoIdLine>>],
      [exists |-> TRUE, lines |-> <<OldEntry, ScalarLine>>],
      [exists |-> TRUE, lines |-> <<OldEntry, GarbageLine, BlankLine>>] }

\* runs one after the other against any ledger file, damaged ones included
InitFound ==
    /\ call = NoCall
    /\ prev = NoCall
    /\ InitRun
    /\ ledger \in InitialLedgers \cup CorruptLedgers \cup {EmptyLedger}

SpecFound == InitFound /\ [][NextLedger]_vars

\* one run of run_batch over any directory, into a fresh output directory
NextBatch ==
    \/ BatchStart
    \/ BatchCallRunPipeline
    \/ BatchRunPipelineStep
    \/ BatchRecordRun
    \/ BatchWriteSummary

SpecBatch == InitUnit /\ [][NextBatch]_vars

\* runs of several runners against the same ledger, interleaved at will
NextRace ==
    \E r \in Runners :
        \/ LoadAndScore(r, LedgerInputs, MaxRaceRuns)
        \/ WriteArtifacts(r)
        \/ ReadLedgerTail(r)
        \/ AppendLedgerEntry(r)

SpecRace == InitLedger /\ [][NextRace]_vars

-----------------------------------------------------------------------------
(* Properties *)

LowTiers == {"HK-REVIEWED", "HK-REJECTED"}

\* HK-INSTITUTIONAL > HK-PRO > HK-VERIFIED > HK-REVIEWED > HK-REJECTED
TierRank(level) ==
    CASE level = "HK-INSTITUTIONAL" -> 4
      [] level = "HK-PRO"           -> 3
      [] level = "HK-VERIFIED"      -> 2
      [] level = "HK-REVIEWED"      -> 1
      [] level = "HK-REJECTED"      -> 0

IsGateCall(c) == c.fn = "determine_certification_level"

\* the scores and flags of a classifier call pass every condition of HK-INSTITUTIONAL
\* other than the ones on hallucination flags and absence assertions
TopScores(evid_effective, hci, inferred_ratio, spec) ==
    hci >= 850 /\ evid_effective >= 820 /\ inferred_ratio <= 4000 /\ spec >= 750

\* C1: whenever the hallucination-flag list handed to determine_certification_level
\* is non-empty, it returns HK-REJECTED with no obligation field, whatever the
\* scores, the inferred ratio and the absence boolean are.
C1_RejectionDominance ==
    (IsGateCall(call) /\ call.args.hallucination_flags # <<>>)
        => call.ret = <<"HK-REJECTED", {}>>

C1_Witness ==
    /\ IsGateCall(call)
    /\ call.args.hallucination_flags # <<>>
    /\ TopScores(call.args.evid_effective, call.args.hci, call.args.inferred_ratio,
                 call.args.spec)
    /\ ~call.args.has_absence_assertions
    /\ call.ret[1] = "HK-REJECTED"

\* C2: of two calls of determine_certification_level that agree on the SPEC score,
\* the inferred ratio, the hallucination flags and the absence boolean, the one
\* whose evid_effective and hci are both at least the other's gets a tier that is
\* equal or higher.
C2_GateMonotonicity ==
    ( /\ IsGateCall(prev)
      /\ IsGateCall(call)
      /\ call.args.spec = prev.args.spec
      /\ call.args.inferred_ratio = prev.args.inferred_ratio
      /\ call.args.hallucination_flags = prev.args.hallucination_flags
      /\ call.args.has_absence_assertions = prev.args.has_absence_assertions
      /\ call.args.evid_effective >= prev.args.evid_effective
      /\ call.args.hci >= prev.args.hci )
        => TierRank(call.ret[1]) >= TierRank(prev.ret[1])

C2_Witness ==
    /\ IsGateCall(prev)
    /\ IsGateCall(call)
    /\ call.args.evid_effective > prev.args.evid_effective
    /\ call.args.hci > prev.args.hci
    /\ prev.ret[1] = "HK-VERIFIED"
    /\ call.ret[1] = "HK-INSTITUTIONAL"

\* C3: apply_evid_ceiling returns min(raw, 6.5) when the ratio is above 0.75,
\* min(raw, 7.2) when it is above 0.60 and at most 0.75, and raw otherwise; so the
\* effective score never exceeds the raw one and equals it up to a ratio of 0.60.
C3_CeilingInvariant ==
    call.fn = "apply_evid_ceiling" =>
        LET raw   == call.args.evid_raw
            ratio == call.args.inferred_ratio
            eff   == call.ret[1]
            IsMin(cap) == eff <= raw /\ eff <= cap /\ (eff = raw \/ eff = cap)
        IN  /\ ratio > 7500 => IsMin(650)
            /\ (ratio > 6000 /\ ratio <= 7500) => IsMin(720)
            /\ ratio <= 6000 => eff = raw
            /\ eff <= raw

C3_Witness ==
    /\ call.fn = "apply_evid_ceiling"
    /\ call.args.inferred_ratio = 7500
    /\ call.args.evid_raw = 900
    /\ call.ret[1] = 720

RunEvidScores == {d.EVID.score : d \in RunDims}

ScoredRun(r) == pc[r] \in {"artifacts", "ledger_read", "ledger_append", "done", "failed"}

\* C4: the hci of a run is the mean of evid_effective, MECH, INC, RISK and SPEC to
\* the nearest hundredth, and a run that differs only in its raw EVID score and
\* gets the same evid_effective gets the same hci and the same tier.
C4_HciFromEffective ==
    \A r \in Runners : ScoredRun(r) =>
        LET l   == loc[r]
            sum == l.evid_effective + l.dims.MECH.score + l.dims.INC.score
                       + l.dims.RISK.score + l.dims.SPEC.score
            d   == 5 * l.hci - sum
        IN  /\ 2 * d <= 5 /\ 2 * d >= -5
            /\ \A raw2 \in RunEvidScores :
                 LET dims2 == [l.dims EXCEPT !.EVID = Score(raw2)]
                     eff2  == apply_evid_ceiling(raw2, l.inferred_ratio)[1]
                     hci2  == compute_hci(dims2, eff2)
                 IN  eff2 = l.evid_effective =>
                        /\ hci2 = l.hci
                        /\ determine_certification_level(dims2, eff2, hci2, l.inferred_ratio,
                               l.hallucination_flags, l.has_absence)[1] = l.cert_level

C4_Witness ==
    /\ pc[1] = "done"
    /\ loc[1].evid_raw = 900
    /\ loc[1].evid_effective = 650
    /\ loc[1].hci = 783
    /\ loc[1].result.certification_level = "HK-REVIEWED"

\* every line but the first names the line before it, the first names none
ChainIntegrity(lines) ==
    lines # <<>> =>
        /\ lines[1].prev_entry_id = None
        /\ \A n \in 2..Len(lines) : lines[n].prev_entry_id = lines[n - 1].entry_id

\* C5: in a ledger written by runs that do not overlap, from an absent or empty
\* file, the first entry has prev_entry_id null and every later entry has the
\* entry_id of the entry before it as its prev_entry_id.
C5_LedgerChainIntegrity ==
    /\ \A n \in 1..Len(ledger.lines) : ledger.lines[n].kind = "entry"
    /\ ChainIntegrity(ledger.lines)

C5_Witness ==
    /\ Len(ledger.lines) >= 3
    /\ ledger.lines[3].prev_entry_id # ledger.lines[1].entry_id

\* C6: when two runs against the same ledger both read its tail before either
\* appends, both complete without error and leave a ledger that violates chain
\* integrity: two entries with the same prev_entry_id, the second not naming the
\* first.
C6_RaceBreaksChain ==
    ( /\ pc[1] = "done"
      /\ pc[2] = "done"
      /\ runs = 2
      /\ loc[1].prev_id = loc[2].prev_id )
        => /\ Len(ledger.lines) = 2
           /\ ledger.lines[1].prev_entry_id = ledger.lines[2].prev_entry_id
           /\ ~ChainIntegrity(ledger.lines)

C6_Witness ==
    /\ pc[1] = "done"
    /\ pc[2] = "done"
    /\ runs = 2
    /\ loc[1].result # None
    /\ loc[2].result # None
    /\ ~ChainIntegrity(ledger.lines)

\* the cap apply_evid_ceiling uses at an inferred ratio above 0.60
CapFor(inferred_ratio) == IF inferred_ratio > 7500 THEN 650 ELSE 720

\* C7: when the inferred ratio is above a threshold and the raw EVID score is
\* below the cap of that threshold, the effective score is the raw one and there
\* is no ceiling note: evid_ceiling_applied is null in the score record and in the
\* audit record.
C7_NoteOnlyWhenCapBites ==
    \A r \in Runners :
        ( /\ pc[r] \in {"ledger_read", "ledger_append", "done"}
          /\ loc[r].inferred_ratio > 6000
          /\ loc[r].evid_raw < CapFor(loc[r].inferred_ratio) )
            => /\ loc[r].evid_effective = loc[r].evid_raw
               /\ loc[r].ceiling_note = None
               /\ loc[r].sci.evid_ceiling_applied = None
               /\ loc[r].audit.evid_ceiling_applied = None

\* C8: a run in which detect_absence_assertions returns a flag is assigned
\* HK-REVIEWED or HK-REJECTED, whatever its scores and inferred ratio are.
C8_AbsenceBlocksTopTiers ==
    \A r \in Runners :
        (ScoredRun(r) /\ loc[r].absence_flags # <<>>) =>
            /\ loc[r].cert_level \in LowTiers
            /\ loc[r].sci # None => loc[r].sci.certification_level \in LowTiers
            /\ loc[r].result # None => loc[r].result.certification_level \in LowTiers

C8_Witness ==
    /\ pc[1] = "done"
    /\ loc[1].absence_flags # <<>>
    /\ loc[1].hallucination_flags = <<>>
    /\ TopScores(loc[1].evid_effective, loc[1].hci, loc[1].inferred_ratio,
                 loc[1].dims.SPEC.score)
    /\ loc[1].result.certification_level = "HK-REVIEWED"

\* the phrases, by position in ABSENCE_PHRASES, that the lower-cased text contains
PhrasesIn(c) == {k \in 1..Len(ABSENCE_PHRASES) : Contains(Lower(c.text), ABSENCE_PHRASES[k])}

\* neither the nested source URI nor the top-level source_url is given
NoUriGiven(c) ==
    /\ c.source.kind = "dict" => Falsy(c.source.uri)
    /\ Falsy(c.source_url)

\* C9: detect_absence_assertions emits exactly one flag for a claim when its
\* lower-cased text contains a phrase of the set and neither URI is given, and no
\* flag otherwise; the flag names the first phrase, in listed order, that the
\* text contains.
C9_AbsenceDetector ==
    call.fn = "detect_absence_assertions" =>
        LET claims == call.args.claims
            flags  == call.ret
            FlagsOf(i) == {k \in 1..Len(flags) : flags[k].claim_id = claims[i].claim_id}
        IN  /\ \A i \in 1..Len(claims) :
                 Cardinality(FlagsOf(i)) =
                     IF PhrasesIn(claims[i]) # {} /\ NoUriGiven(claims[i]) THEN 1 ELSE 0
            /\ \A k \in 1..Len(flags) :
                 \E i \in 1..Len(claims) :
                     /\ flags[k].claim_id = claims[i].claim_id
                     /\ flags[k].flag_type = "ABSENCE_ASSERTION"
                     /\ \E m \in PhrasesIn(claims[i]) :
                           /\ flags[k].matched_phrase = ABSENCE_PHRASES[m]
                           /\ \A n \in PhrasesIn(claims[i]) : m <= n

C9_Witness ==
    /\ call.fn = "detect_absence_assertions"
    /\ Len(call.args.claims) = 2
    /\ call.args.claims[1].text = TextUpper
    /\ call.args.claims[1].source_url = "https://b.example"
    /\ call.args.claims[2].text = TextPublicThenAudit
    /\ call.args.claims[2].source_url = Null
    /\ Len(call.ret) = 1
    /\ call.ret[1].claim_id = ClmId(2)
    /\ call.ret[1].matched_phrase = PhraseNoAudit

\* the claims counted as INFERRED: those tagged so, and those with no tag
InferredCount(claims) ==
    Cardinality({i \in 1..Len(claims) : claims[i].evidence_type \in {"INFERRED", Absent}})

\* C10 as stated: the ratio is the number of INFERRED claims (a missing
\* evidence_type counted as INFERRED) divided by the number of claims, within
\* [0,1], and exactly 1.0 for the empty list.
C10_RatioIsExactQuotient ==
    call.fn = "compute_inferred_ratio" =>
        LET claims == call.args.claims
        IN  /\ call.ret >= 0 /\ call.ret <= 10000
            /\ claims = <<>> => call.ret = 10000
            /\ claims # <<>> => call.ret * Len(claims) = 10000 * InferredCount(claims)

\* C10 amended: the ratio is that quotient rounded to 4 decimal places, within
\* [0,1], and exactly 1.0 for the empty list.
C10_RatioIsRoundedQuotient ==
    call.fn = "compute_inferred_ratio" =>
        LET claims == call.args.claims
            d      == call.ret * Len(claims) - 10000 * InferredCount(claims)
        IN  /\ call.ret >= 0 /\ call.ret <= 10000
            /\ claims = <<>> => call.ret = 10000
            /\ claims # <<>> => (2 * d <= Len(claims) /\ 2 * d >= -Len(claims))

C10_Witness ==
    /\ call.fn = "compute_inferred_ratio"
    /\ Len(call.args.claims) = 3
    /\ call.args.claims[1].evidence_type = Absent
    /\ call.args.claims[2].evidence_type = "VERIFIED"
    /\ call.args.claims[3].evidence_type = Null
    /\ call.ret = 3333

\* the obligation fields that go with a tier
ObligationsOf(level) ==
    CASE level = "HK-INSTITUTIONAL" -> {<<"institutional_requires_two_reviews", TRUE>>}
      [] level = "HK-PRO"           -> {<<"pro_requires_second_review", TRUE>>}
      [] OTHER                      -> {}

\* C11: the classifier returns institutional_requires_two_reviews = true exactly
\* for HK-INSTITUTIONAL, pro_requires_second_review = true exactly for HK-PRO and
\* no obligation field for the other tiers; the score record and the audit record
\* of the run carry exactly the obligation fields the classifier returned.
C11_TierObligations ==
    \A r \in Runners : ScoredRun(r) =>
        LET l == loc[r]
        IN  /\ (<<"institutional_requires_two_reviews", TRUE>> \in l.cert_extra)
                   <=> l.cert_level = "HK-INSTITUTIONAL"
            /\ (<<"pro_requires_second_review", TRUE>> \in l.cert_extra)
                   <=> l.cert_level = "HK-PRO"
            /\ l.cert_extra = ObligationsOf(l.cert_level)
            /\ l.sci # None => l.sci.extra = l.cert_extra
            /\ l.audit # None => l.audit.extra = l.cert_extra

C11_Witness ==
    /\ pc[1] = "done"
    /\ loc[1].cert_level = "HK-INSTITUTIONAL"
    /\ loc[1].sci.extra = {<<"institutional_requires_two_reviews", TRUE>>}
    /\ loc[1].audit.extra = {<<"institutional_requires_two_reviews", TRUE>>}

\* the positions of a claim list whose claim carries a claim_id of the caller
Supplied(claims) == {i \in 1..Len(claims) : claims[i].claim_id # None}

\* C12: after the normaliser every claim has an identifier (CLM-<position> where
\* none was supplied, the supplied one otherwise), and the identifiers are
\* pairwise distinct whenever the supplied ones are.
C12_ClaimIdsUnique ==
    call.fn = "assign_claim_ids" =>
        LET raw == call.args.claims
            out == call.ret
        IN  (\A i, j \in Supplied(raw) : i # j => raw[i].claim_id # raw[j].claim_id)
                => /\ Len(out) = Len(raw)
                   /\ \A i \in 1..Len(out) :
                        out[i].claim_id = IF i \in Supplied(raw)
                                          THEN raw[i].claim_id ELSE ClmId(i)
                   /\ \A i, j \in 1..Len(out) : i # j => out[i].claim_id # out[j].claim_id

\* the last line of the ledger file, white space at its end set aside, does not
\* parse as JSON or parses to something without an entry_id
MalformedTail(file) ==
    /\ file.exists
    /\ LET lines == StripLines(file.lines)
       IN  /\ lines # <<>>
           /\ lines[Len(lines)].kind \in {"garbage", "no_entry_id", "scalar"}

IsPrefix(s, t) == Len(s) <= Len(t) /\ SubSeq(t, 1, Len(s)) = s

RECURSIVE SumCounts(_, _)
\* the sum of the counts of a counts_by_level dict over the levels in keys
SumCounts(level_counts, keys) ==
    IF keys = {} THEN 0
    ELSE LET l == CHOOSE k \in keys : TRUE
         IN  level_counts[l] + SumCounts(level_counts, keys \ {l})

\* a file on which run_pipeline is bound to raise: not JSON, or without a title
BoundToFail(content) == ~IsJson(content) \/ content.title = Absent

\* C15: run_batch takes the files of the directory once each, in sorted order of
\* their names; a run that raised is recorded with certification_level ERROR and
\* a null hci, and the file after it is still processed; the summary holds one
\* run record per file and counts per level, ERROR included, that sum to
\* total_runs.
C15_BatchFailureIsolation ==
    batch.state \in {"loop", "finished"} =>
        LET files == batch.input_files
            recs  == batch.run_records
        IN  /\ {files[k] : k \in 1..Len(files)} = DOMAIN batch.dir
            /\ \A j, k \in 1..Len(files) : j < k => files[j][2] < files[k][2]
            /\ Len(recs) <= Len(files)
            /\ \A k \in 1..Len(recs) :
                 /\ recs[k].input_file = files[k]
                 /\ recs[k].certification_level = "ERROR" <=> recs[k].hci = NoneNumber
                 /\ BoundToFail(batch.dir[files[k]])
                        => recs[k].certification_level = "ERROR"
                 /\ recs[k].certification_level # "ERROR"
                        => recs[k].certification_level \in
                              {"HK-INSTITUTIONAL", "HK-PRO", "HK-VERIFIED",
                               "HK-REVIEWED", "HK-REJECTED"}
            /\ \A l \in DOMAIN batch.level_counts :
                 batch.level_counts[l] =
                     Cardinality({k \in 1..Len(recs) : recs[k].certification_level = l})
            /\ SumCounts(batch.level_counts, DOMAIN batch.level_counts) = Len(recs)
            /\ (batch.state = "loop" /\ Len(recs) < runs /\ pc[1] = "failed")
                   => ENABLED BatchRecordRun
            /\ (BetweenRuns /\ runs < Len(files)) => ENABLED BatchCallRunPipeline
            /\ (BetweenRuns /\ runs = Len(files)) => ENABLED BatchWriteSummary
            /\ batch.state = "finished" =>
                 /\ batch.summary.runs = recs
                 /\ Len(batch.summary.runs) = Cardinality(DOMAIN batch.dir)
                 /\ batch.summary.total_runs = Len(files)
                 /\ SumCounts(batch.summary.counts_by_level,
                              DOMAIN batch.summary.counts_by_level)
                        = batch.summary.total_runs

C15_Witness ==
    /\ batch.state = "finished"
    /\ batch.summary.total_runs = 3
    /\ batch.summary.runs[1].certification_level = "ERROR"
    /\ batch.summary.runs[1].hci = NoneNumber
    /\ batch.summary.runs[2].certification_level = "HK-INSTITUTIONAL"
    /\ batch.summary.runs[3].certification_level = "ERROR"
    /\ batch.summary.counts_by_level["ERROR"] = 2
    /\ batch.summary.counts_by_level["HK-INSTITUTIONAL"] = 1

\* a classifier call that gets past the first HK-REJECTED gate and matches none
\* of the HK-INSTITUTIONAL, HK-PRO and HK-VERIFIED gates
ReachesReviewedGate(a) ==
    /\ ~RejectedGate(a.evid_effective, a.hci, a.hallucination_flags)
    /\ ~InstitutionalGate(a.spec, a.evid_effective, a.hci, a.inferred_ratio,
                          a.hallucination_flags, a.has_absence_assertions)
    /\ ~ProGate(a.spec, a.evid_effective, a.hci, a.inferred_ratio, a.has_absence_assertions)
    /\ ~VerifiedGate(a.spec, a.evid_effective, a.hci, a.inferred_ratio,
                     a.has_absence_assertions)

\* C16: a record that reaches the HK-REVIEWED gate is HK-REVIEWED exactly when its
\* hci is at least 6.0; the gate's test of evid_effective >= 6.0 is true whenever
\* the gate is reached; every record with hci in [5.5, 6.0) is HK-REJECTED with no
\* obligation, by the terminal default when it got past the first gate.
C16_ReviewedOrDefault ==
    IsGateCall(call) =>
        LET a == call.args
        IN  /\ ReachesReviewedGate(a) =>
                 /\ a.evid_effective >= 600
                 /\ call.ret[1] = "HK-REVIEWED" <=> a.hci >= 600
                 /\ call.ret[1] \in LowTiers
                 /\ call.ret[2] = {}
            /\ (a.hci >= 550 /\ a.hci < 600) =>
                 /\ call.ret = <<"HK-REJECTED", {}>>
                 /\ ~RejectedGate(a.evid_effective, a.hci, a.hallucination_flags)
                        => ReachesReviewedGate(a)

C16_Witness ==
    /\ IsGateCall(call)
    /\ call.args.hci = 550
    /\ call.args.evid_effective = 900
    /\ call.args.spec = 750
    /\ call.args.inferred_ratio = 3333
    /\ call.args.hallucination_flags = <<>>
    /\ ~call.args.has_absence_assertions
    /\ call.ret = <<"HK-REJECTED", {}>>

\* C17: a run whose inferred ratio is above 0.60, the run of an empty claim list
\* among them, is assigned HK-REVIEWED or HK-REJECTED whatever its five raw
\* scores are; when the ratio is above 0.75 the evid_effective of the score
\* record, of the audit record and of the ledger entry is at most 6.5.
C17_CeilingKeepsTiersLow ==
    \A r \in Runners : ScoredRun(r) =>
        LET l == loc[r]
        IN  /\ l.claims = <<>> => l.inferred_ratio = 10000
            /\ l.inferred_ratio > 6000 =>
                 /\ l.cert_level \in LowTiers
                 /\ l.sci # None => l.sci.certification_level \in LowTiers
                 /\ l.audit # None => l.audit.certification_level \in LowTiers
                 /\ l.entry # None => l.entry.certification_level \in LowTiers
                 /\ l.result # None => l.result.certification_level \in LowTiers
            /\ l.inferred_ratio > 7500 =>
                 /\ l.evid_effective <= 650
                 /\ l.sci # None => l.sci.evid_effective <= 650
                 /\ l.audit # None => l.audit.evid_effective <= 650
                 /\ l.entry # None => l.entry.evid_effective <= 650

C17_Witness ==
    /\ pc[1] = "done"
    /\ loc[1].claims = <<>>
    /\ loc[1].dims = AllNine
    /\ loc[1].hallucination_flags = <<>>
    /\ loc[1].inferred_ratio = 10000
    /\ loc[1].sci.evid_effective = 650
    /\ loc[1].audit.evid_effective = 650
    /\ loc[1].entry.evid_effective = 650
    /\ loc[1].result.certification_level = "HK-REVIEWED"

====
